---- MODULE Spec2Model ----
(***************************************************************************)
(* A model of the compyl lexer (src/lexer.rs) and of its driver            *)
(* (src/main.rs).  Bytes are one-character strings; the input buffer is a  *)
(* sequence of bytes indexed from 0 in the code and from 1 here, so        *)
(* input[i] of the code is inp[i + 1] of the model.                        *)
(***************************************************************************)
EXTENDS Integers, Sequences, FiniteSets, TLC

VARIABLES input, position, read_position, ch, panicked, results, callStart,
          scanStart

vars ==
    << input, position, read_position, ch, panicked, results, callStart,
       scanStart >>

(***************************************************************************)
(* Bounds of the exploration.                                              *)
(***************************************************************************)
\* longest input built freely from Alphabet
MaxLen == 3
\* how far past the end of the input the cursor may be driven
MaxPast == 2

(***************************************************************************)
(* Bytes and their classes.                                                *)
(***************************************************************************)
\* Option<u8>::None, the value of ch past the end of the input
NoChar == "None"

Lower ==
    { "a", "b", "c", "d", "e", "f", "g", "h", "i", "j", "k", "l", "m",
      "n", "o", "p", "q", "r", "s", "t", "u", "v", "w", "x", "y", "z" }

Upper ==
    { "A", "B", "C", "D", "E", "F", "G", "H", "I", "J", "K", "L", "M",
      "N", "O", "P", "Q", "R", "S", "T", "U", "V", "W", "X", "Y", "Z" }

Digits == { "0", "1", "2", "3", "4", "5", "6", "7", "8", "9" }

\* u8::is_ascii_whitespace: space, tab, line feed, form feed, carriage return
is_ascii_whitespace(c) == c \in { " ", "\t", "\n", "\f", "\r" }

is_ascii_alphabetic(c) == c \in Lower \cup Upper

is_ascii_digit(c) == c \in Digits

\* the pattern  b'a'..=b'z' | b'A'..=b'Z' | b'_'
IsIdentStart(c) == c \in Lower \cup Upper \cup { "_" }

\* the bytes of the arms that map one byte to one unit token
SingleOps == { "+", "-", "*", "/", "%", "&", "|" }

SingleDelims == { ";", ":", ",", "(", ")", "{", "}", "[", "]" }

\* the bytes of the arms that look one byte ahead
TwoCharHeads == { ">", "=", "!", "<" }

(***************************************************************************)
(* Tokens.  A token is a record of its variant and its payload; the unit   *)
(* variants carry the empty payload.  None is the absent token.            *)
(***************************************************************************)
Tok(kind, text) == [ kind |-> kind, text |-> text ]

Unit(kind) == Tok(kind, << >>)

None == Tok("None", << >>)

UnitOf(c) ==
    CASE c = "+" -> "OpPlus"
      [] c = "-" -> "OpMinus"
      [] c = "*" -> "OpMult"
      [] c = "/" -> "OpDiv"
      [] c = "%" -> "OpMod"
      [] c = "&" -> "OpAnd"
      [] c = "|" -> "OpOr"
      [] c = ";" -> "SemiColon"
      [] c = ":" -> "Colon"
      [] c = "," -> "Comma"
      [] c = "(" -> "Lparen"
      [] c = ")" -> "RParen"
      [] c = "{" -> "LSquirly"
      [] c = "}" -> "RSquirly"
      [] c = "[" -> "LBracket"
      [] c = "]" -> "RBracket"

ShortOf(c) ==
    CASE c = ">" -> "OpGt"
      [] c = "=" -> "Assignment"
      [] c = "!" -> "OpNot"
      [] c = "<" -> "OpLt"

LongOf(c) ==
    CASE c = ">" -> "OpGe"
      [] c = "=" -> "OpEq"
      [] c = "!" -> "OpNe"
      [] c = "<" -> "OpLe"

\* the keyword table without its last entry
KeywordOfNoBreak(ident) ==
    CASE ident = << "l", "e", "t" >> -> "KwLet"
      [] ident = << "f", "n" >> -> "KwFn"
      [] ident = << "v", "o", "i", "d" >> -> "KwVoid"
      [] ident = << "t", "r", "u", "e" >> -> "KwTrue"
      [] ident = << "f", "a", "l", "s", "e" >> -> "KwFalse"
      [] ident = << "i", "f" >> -> "KwIf"
      [] ident = << "e", "l", "s", "e" >> -> "KwElse"
      [] ident = << "w", "h", "i", "l", "e" >> -> "KwWhile"
      [] ident = << "r", "e", "t", "u", "r", "n" >> -> "KwReturn"
      [] OTHER -> "Identifier"

KeywordOf(ident) ==
    CASE ident = << "l", "e", "t" >> -> "KwLet"
      [] ident = << "f", "n" >> -> "KwFn"
      [] ident = << "v", "o", "i", "d" >> -> "KwVoid"
      [] ident = << "t", "r", "u", "e" >> -> "KwTrue"
      [] ident = << "f", "a", "l", "s", "e" >> -> "KwFalse"
      [] ident = << "i", "f" >> -> "KwIf"
      [] ident = << "e", "l", "s", "e" >> -> "KwElse"
      [] ident = << "w", "h", "i", "l", "e" >> -> "KwWhile"
      [] ident = << "r", "e", "t", "u", "r", "n" >> -> "KwReturn"
      [] ident = << "b", "r", "e", "a", "k" >> -> "KwBreak"
      [] OTHER -> "Identifier"

(***************************************************************************)
(* The scanner.  A scanner state s is the record of the Lexer's fields     *)
(* but the buffer, which is passed beside it, and of a flag that records   *)
(* a failed bounds check (a panic of the Rust program).                    *)
(***************************************************************************)
Lexer(p, rp, c, pk) ==
    [ position |-> p, read_position |-> rp, ch |-> c, panic |-> pk ]

\* self.input[i]: the checked index of a Vec
Get(inp, i) ==
    IF i >= 0 /\ i < Len(inp)
    THEN [ ok |-> TRUE, val |-> inp[i + 1] ]
    ELSE [ ok |-> FALSE, val |-> NoChar ]

\* &self.input[a..=b]: the checked inclusive slice of a Vec
Slice(inp, a, b) ==
    IF a >= 0 /\ a <= b + 1 /\ b < Len(inp)
    THEN [ ok |-> TRUE, val |-> SubSeq(inp, a + 1, b + 1) ]
    ELSE [ ok |-> FALSE, val |-> << >> ]

\* U+FFFD, what a lossy decoding puts for a byte that is not UTF-8
Replacement == "U+FFFD"

\* String::from_utf8_lossy(..).to_string() on the bytes modelled, all ASCII
from_utf8_lossy(bytes) ==
    [ i \in 1..Len(bytes) |->
        IF Len(bytes[i]) = 1 THEN bytes[i] ELSE Replacement ]

\* read_char setting the cursor after the lookahead index is advanced
ReadCharCursorLate(inp, s) ==
    LET g == Get(inp, s.read_position)
    IN  [ s EXCEPT !.ch = IF s.read_position >= Len(inp)
                          THEN NoChar ELSE g.val,
                   !.position = s.read_position + 1,
                   !.read_position = s.read_position + 1 ]

read_char(inp, s) ==
    LET g == Get(inp, s.read_position)
    IN  IF s.read_position >= Len(inp)
        THEN [ s EXCEPT !.ch = NoChar,
                        !.position = s.read_position,
                        !.read_position = s.read_position + 1 ]
        ELSE [ s EXCEPT !.ch = g.val,
                        !.panic = s.panic \/ ~g.ok,
                        !.position = s.read_position,
                        !.read_position = s.read_position + 1 ]

\* peek without its test of the end of the buffer
PeekUnguarded(inp, s) == Get(inp, s.read_position)

peek(inp, s) ==
    IF s.read_position >= Len(inp)
    THEN [ ok |-> TRUE, val |-> NoChar ]
    ELSE Get(inp, s.read_position)

RECURSIVE skip_whitespace(_, _)
skip_whitespace(inp, s) ==
    IF s.ch # NoChar /\ is_ascii_whitespace(s.ch)
    THEN skip_whitespace(inp, read_char(inp, s))
    ELSE s

\* the loop of read_identifier taking digits into the run
RECURSIVE IdentLoopAlnum(_, _)
IdentLoopAlnum(inp, s) ==
    LET p == peek(inp, s)
    IN  IF ~p.ok THEN [ s EXCEPT !.panic = TRUE ]
        ELSE IF p.val # NoChar
                /\ ( is_ascii_alphabetic(p.val) \/ is_ascii_digit(p.val)
                     \/ p.val = "_" )
        THEN IdentLoopAlnum(inp, read_char(inp, s))
        ELSE s

\* the loop of read_identifier
RECURSIVE IdentLoop(_, _)
IdentLoop(inp, s) ==
    LET p == peek(inp, s)
    IN  IF ~p.ok THEN [ s EXCEPT !.panic = TRUE ]
        ELSE IF p.val # NoChar /\ (is_ascii_alphabetic(p.val) \/ p.val = "_")
        THEN IdentLoop(inp, read_char(inp, s))
        ELSE s

\* the two digit loops of read_num
RECURSIVE DigitLoop(_, _)
DigitLoop(inp, s) ==
    LET p == peek(inp, s)
    IN  IF ~p.ok THEN [ s EXCEPT !.panic = TRUE ]
        ELSE IF p.val # NoChar /\ is_ascii_digit(p.val)
        THEN DigitLoop(inp, read_char(inp, s))
        ELSE s

\* the loop of read_comment
RECURSIVE CommentLoop(_, _)
CommentLoop(inp, s) ==
    LET p == peek(inp, s)
    IN  IF ~p.ok THEN [ s EXCEPT !.panic = TRUE ]
        ELSE IF p.val # NoChar /\ p.val # "\n"
        THEN CommentLoop(inp, read_char(inp, s))
        ELSE s

\* the slice taken from the start of the buffer, ..=position
CaptureFromStart(inp, start_pos, s) ==
    LET sl == Slice(inp, 0, s.position)
    IN  [ lex  |-> [ s EXCEPT !.panic = s.panic \/ ~sl.ok ],
          text |-> from_utf8_lossy(sl.val) ]

\* the slice with an exclusive end, start_pos..position
CaptureExclusive(inp, start_pos, s) ==
    LET sl == Slice(inp, start_pos, s.position - 1)
    IN  [ lex  |-> [ s EXCEPT !.panic = s.panic \/ ~sl.ok ],
          text |-> from_utf8_lossy(sl.val) ]

\* the return of the three readers: the slice start_pos..=position, decoded
Capture(inp, start_pos, s) ==
    LET sl == Slice(inp, start_pos, s.position)
    IN  [ lex  |-> [ s EXCEPT !.panic = s.panic \/ ~sl.ok ],
          text |-> from_utf8_lossy(sl.val) ]

read_identifier(inp, s) == Capture(inp, s.position, IdentLoop(inp, s))

\* read_num without the fraction
ReadNumInteger(inp, s) == Capture(inp, s.position, DigitLoop(inp, s))

\* read_num taking the '.' only when a digit follows it
ReadNumStrict(inp, s) ==
    LET s1 == DigitLoop(inp, s)
        p  == peek(inp, s1)
        q  == Get(inp, s1.read_position + 1)
        s2 == IF p.val = "." /\ q.ok /\ is_ascii_digit(q.val)
              THEN DigitLoop(inp, read_char(inp, s1))
              ELSE s1
    IN  Capture(inp, s.position, s2)

read_num(inp, s) ==
    LET s1 == DigitLoop(inp, s)
        p  == peek(inp, s1)
        s2 == IF ~p.ok THEN [ s1 EXCEPT !.panic = TRUE ]
              ELSE IF p.val = "." THEN DigitLoop(inp, read_char(inp, s1))
              ELSE s1
    IN  Capture(inp, s.position, s2)

\* read_comment capturing from the byte after the marker
ReadCommentAfterMarker(inp, s) ==
    Capture(inp, s.position + 1, CommentLoop(inp, s))

read_comment(inp, s) == Capture(inp, s.position, CommentLoop(inp, s))

\* the arms with the short form at the last byte of the input too
TwoCharShortAtEnd(inp, s) ==
    LET p == peek(inp, s)
    IN  IF p.val = "="
        THEN [ lex |-> read_char(inp, s), tok |-> Unit(LongOf(s.ch)) ]
        ELSE [ lex |-> s, tok |-> Unit(ShortOf(s.ch)) ]

\* the arms without their lookahead: the short form, whatever follows
TwoCharNoLookahead(inp, s) == [ lex |-> s, tok |-> Unit(ShortOf(s.ch)) ]

\* the arms with filter for map: no token unless '=' follows
TwoCharLongOnly(inp, s) ==
    LET p == peek(inp, s)
    IN  IF p.val = "="
        THEN [ lex |-> read_char(inp, s), tok |-> Unit(LongOf(s.ch)) ]
        ELSE [ lex |-> s, tok |-> None ]

\* the four arms  b'>' | b'=' | b'!' | b'<'  =>  self.peek().map(..)
TwoChar(inp, s) ==
    LET p == peek(inp, s)
    IN  IF ~p.ok THEN [ lex |-> [ s EXCEPT !.panic = TRUE ], tok |-> None ]
        ELSE IF p.val = NoChar THEN [ lex |-> s, tok |-> None ]
        ELSE IF p.val = "="
        THEN [ lex |-> read_char(inp, s), tok |-> Unit(LongOf(s.ch)) ]
        ELSE [ lex |-> s, tok |-> Unit(ShortOf(s.ch)) ]

\* self.ch.and_then(|ch| match ch { .. })
Classify(inp, s) ==
    IF s.ch = NoChar THEN [ lex |-> s, tok |-> None ]
    ELSE IF s.ch \in SingleOps \cup SingleDelims
    THEN [ lex |-> s, tok |-> Unit(UnitOf(s.ch)) ]
    ELSE IF s.ch \in TwoCharHeads THEN TwoChar(inp, s)
    ELSE IF s.ch = "?"
    THEN LET r == read_comment(inp, s)
         IN  [ lex |-> r.lex, tok |-> Tok("Comment", r.text) ]
    ELSE IF IsIdentStart(s.ch)
    THEN LET r == read_identifier(inp, s)
         IN  [ lex |-> r.lex,
               tok |-> IF KeywordOf(r.text) = "Identifier"
                       THEN Tok("Identifier", r.text)
                       ELSE Unit(KeywordOf(r.text)) ]
    ELSE IF is_ascii_digit(s.ch)
    THEN LET r == read_num(inp, s)
         IN  [ lex |-> r.lex, tok |-> Tok("NumLiteral", r.text) ]
    ELSE [ lex |-> s, tok |-> None ]

\* next_token returning the TokEof variant at the end of the input
NextTokenEof(inp, s) ==
    LET s1 == skip_whitespace(inp, s)
        r  == Classify(inp, s1)
    IN  [ lex |-> read_char(inp, r.lex),
          tok |-> IF s1.ch = NoChar THEN Unit("TokEof") ELSE r.tok ]

\* next_token without its final read_char
NextTokenNoAdvance(inp, s) ==
    LET r == Classify(inp, skip_whitespace(inp, s))
    IN  [ lex |-> r.lex, tok |-> r.tok ]

\* next_token advancing once more after a byte it does not recognise
NextTokenSkipsTwo(inp, s) ==
    LET r == Classify(inp, skip_whitespace(inp, s))
    IN  [ lex |-> IF r.tok = None
                  THEN read_char(inp, read_char(inp, r.lex))
                  ELSE read_char(inp, r.lex),
          tok |-> r.tok ]

next_token(inp, s) ==
    LET r == Classify(inp, skip_whitespace(inp, s))
    IN  [ lex |-> read_char(inp, r.lex), tok |-> r.tok ]

\* Lexer::new
new(inp) == read_char(inp, Lexer(0, 0, NoChar, FALSE))

(***************************************************************************)
(* The inputs explored: every byte sequence of at most MaxLen bytes over   *)
(* Alphabet, which holds a byte of each class, and the inputs of the       *)
(* repository's tests and of the language's lexemes.                       *)
(***************************************************************************)
Alphabet ==
    { "+", ";", ">", "=", "!", "<", "?", "a", "_", "1", ".", " ", "\n", "@" }

RECURSIVE SeqsUpTo(_)
SeqsUpTo(n) ==
    IF n = 0 THEN { << >> }
    ELSE LET shorter == SeqsUpTo(n - 1)
         IN  shorter \cup
             { Append(q, c) : q \in { r \in shorter : Len(r) = n - 1 },
                              c \in Alphabet }

SingleLexemes == SingleOps \cup SingleDelims \cup TwoCharHeads

Keywords ==
    { << "l", "e", "t" >>, << "f", "n" >>, << "v", "o", "i", "d" >>,
      << "t", "r", "u", "e" >>, << "f", "a", "l", "s", "e" >>,
      << "i", "f" >>, << "e", "l", "s", "e" >>,
      << "w", "h", "i", "l", "e" >>, << "r", "e", "t", "u", "r", "n" >>,
      << "b", "r", "e", "a", "k" >> }

\* the input of test_get_next_token
TestOperatorsInput ==
    << "+", "-", "*", "/", "%", "&", "|", "!", ">", ">", "=", "=", "=", "!",
       "=", "<", "<", "=", ";", ":", ",", "(", ")", "{", "}", "[", "]" >>

\* the input of test_expressions
TestExpressionsInput ==
    << "l", "e", "t", " ", "a", " ", "=", " ", "5", ";" >>

\* the input of test_comment
TestCommentInput ==
    << "\n", " ", " ", " ", " ", " ", " ", " ", " ", "l", "e", "t", " ", "a",
       " ", "=", " ", "5", ";", "\n", " ", " ", " ", " ", " ", " ", " ", " ",
       "?", " ", "F", "o", "o", "+", "\n", " ", " ", " ", " ", " ", " ", " ",
       " ", "l", "e", "t", " ", "b", " ", "=", " ", "1", "0", ";", "\n", " ",
       " ", " ", " ", " ", " ", " ", " ", "?", " ", "B", "a", "r", "_", "\n",
       " ", " ", " ", " ", " ", " ", " ", " " >>

\* the example of the two-character operators
LongOperatorsInput ==
    << ">", ">", "=", "=", "=", "!", "=", "<", "<", "=" >>

\* a comment line, a newline and further tokens
CommentLineInput ==
    << "?", " ", "n", "o", "t", "e", "\n", "a", "+" >>

\* the input of test_complete_lexer
TestCompleteInput ==
    << "l", "e", "t", " ", "f", "i", "v", "e", " ", "=", " ", "5", ";", "\n", " ",
       " ", " ", " ", " ", " ", " ", " ", "l", "e", "t", " ", "t", "e", "n", " ",
       "=", " ", "1", "0", ".", "0", ";", "\n", " ", " ", " ", " ", " ", " ", " ",
       " ", "f", "n", " ", "a", "d", "d", "(", "x", ",", " ", "y", ")", " ", "{",
       "\n", " ", " ", " ", " ", " ", " ", " ", " ", " ", " ", " ", " ", "r", "e",
       "t", "u", "r", "n", " ", "x", " ", "+", " ", "y", ";", "\n", " ", " ", " ",
       " ", " ", " ", " ", " ", "}", "\n", "\n", " ", " ", " ", " ", " ", " ",
       " ", " ", "i", "f", " ", "(", "5", " ", "<", "=", " ", "1", "0", ")", " ",
       "{", "\n", " ", " ", " ", " ", " ", " ", " ", " ", " ", " ", " ", " ", "r",
       "e", "t", "u", "r", "n", " ", "a", "d", "d", "(", "5", ",", " ", "1", "0",
       ")", ";", "\n", " ", " ", " ", " ", " ", " ", " ", " ", "}", "\n", "\n",
       " ", " ", " ", " ", " ", " ", " ", " ", "i", "f", " ", "(", "f", "i", "v",
       "e", " ", "!", "=", " ", "t", "e", "n", ")", " ", "{", "\n", " ", " ", " ",
       " ", " ", " ", " ", " ", " ", " ", " ", " ", "r", "e", "t", "u", "r", "n",
       " ", "a", "d", "d", "(", "f", "i", "v", "e", ",", " ", "t", "e", "n", ")",
       ";", "\n", " ", " ", " ", " ", " ", " ", " ", " ", "}", "\n", "\n", " ",
       " ", " ", " ", " ", " ", " ", " ", "1", "0", " ", "=", "=", " ", "1", "0",
       ".", "0", "\n", " ", " ", " ", " ", " ", " ", " ", " ", "9", ".", "9", " ",
       "<", " ", "1", "0", "\n", "\n", " ", " ", " ", " ", " ", " ", " ", " ",
       "l", "e", "t", " ", "x", " ", "=", " ", "7", ";", "\n", " ", " ", " ", " ",
       " ", " ", " ", " ", "w", "h", "i", "l", "e", " ", "(", "1", "1", " ", ">",
       "=", " ", "1", "0", ")", " ", "{", "\n", " ", " ", " ", " ", " ", " ", " ",
       " ", " ", " ", " ", " ", "x", " ", "=", " ", "x", " ", "+", " ", "f", "i",
       "v", "e", ";", "\n", " ", " ", " ", " ", " ", " ", " ", " ", " ", " ", " ",
       " ", "i", "f", " ", "(", "x", " ", ">", " ", "1", "1", ")", " ", "{", "\n",
       " ", " ", " ", " ", " ", " ", " ", " ", " ", " ", " ", " ", " ", " ", " ",
       " ", "b", "r", "e", "a", "k", ";", "\n", " ", " ", " ", " ", " ", " ", " ",
       " ", " ", " ", " ", " ", "}", "\n", " ", " ", " ", " ", " ", " ", " ", " ",
       "}", "\n", " ", " ", " ", " ", " ", " ", " ", " " >>

\* identifiers that contain or extend a keyword, or end at a digit
IdentifierInputs ==
    { << "l", "e", "t", "_" >>, << "l", "e", "t", "s" >>,
      << "_", "i", "f" >>, << "i", "f", "1" >>, << "e", "l", "s", "e", "1", "a" >>,
      << "F", "o", "o", "_", "b", "a", "r", " ", "x" >>,
      << "w", "h", "i", "l", "e", "(" >> }

\* numerals with and without a fraction, a trailing dot or a second dot
NumeralInputs ==
    { << "1", "0" >>, << "1", "0", ".", "0" >>, << "9", ".", "9", " ", "<" >>,
      << "1", ".", "1", "." >>, << "1", "2", ".", ";" >>,
      << "7", ".", ".", "5" >>, << "1", ".", "2", ".", "3" >>,
      << "4", "2", ".", "a" >> }

Corpus ==
    { << c >> : c \in SingleLexemes }
    \cup { << c, x >> : c \in TwoCharHeads,
                        x \in SingleLexemes \cup Alphabet \cup { "5", "\t" } }
    \cup Keywords
    \cup IdentifierInputs
    \cup NumeralInputs
    \cup { TestExpressionsInput, TestCommentInput, LongOperatorsInput,
           CommentLineInput }

Inputs == SeqsUpTo(MaxLen) \cup Corpus

\* the inputs of the four tests of the repository
TestInputs ==
    { TestOperatorsInput, TestExpressionsInput, TestCommentInput,
      TestCompleteInput }

(***************************************************************************)
(* The state machine: a Lexer is constructed on an input, and its caller   *)
(* (the loop of main, the helper of the tests) calls next_token.  results  *)
(* is the history of what the calls returned; of the last call, callStart *)
(* is the cursor it was entered with and scanStart the index it            *)
(* classified, the cursor after its skip_whitespace.                       *)
(***************************************************************************)
\* the Lexer of the current state
Cur == Lexer(position, read_position, ch, panicked)

\* the state after Lexer::new on an input of the set
InitOn(inputs) ==
    /\ input \in inputs
    /\ position = new(input).position
    /\ read_position = new(input).read_position
    /\ ch = new(input).ch
    /\ panicked = new(input).panic
    /\ results = << >>
    /\ callStart = 0
    /\ scanStart = 0

Init == InitOn(Inputs)

\* the runs of the tests: test constructs a Lexer on the input of a test
InitTests == InitOn(TestInputs)

NextToken ==
    /\ ~panicked
    /\ position < Len(input) + MaxPast
    /\ LET r == next_token(input, Cur)
       IN  /\ position' = r.lex.position
           /\ read_position' = r.lex.read_position
           /\ ch' = r.lex.ch
           /\ panicked' = r.lex.panic
           /\ results' = Append(results, r.tok)
           /\ callStart' = position
           /\ scanStart' = skip_whitespace(input, Cur).position
    /\ UNCHANGED input

Next == NextToken

Spec == Init /\ [][Next]_vars

SpecTests == InitTests /\ [][Next]_vars

TypeOK ==
    /\ input \in Inputs \cup TestInputs
    /\ position \in Nat
    /\ read_position \in Nat
    /\ panicked \in BOOLEAN
    /\ callStart \in Nat
    /\ scanStart \in Nat

(***************************************************************************)
(* Vocabulary of the properties.                                           *)
(***************************************************************************)
\* the number of next_token calls made so far
Calls == Len(results)

\* what the last call returned
Last == results[Len(results)]

\* the byte at index i of the input, counted from 0 as in the code
ByteAt(i) == input[i + 1]

\* a byte that is not whitespace and that no arm of the match recognises
IsUnrecognized(c) ==
    /\ ~is_ascii_whitespace(c)
    /\ c \notin SingleOps \cup SingleDelims \cup TwoCharHeads \cup { "?" }
    /\ ~IsIdentStart(c)
    /\ ~is_ascii_digit(c)

\* the token the language gives a one-byte operator or delimiter
SingleTokenOf(c) ==
    CASE c = "+" -> "OpPlus"   [] c = "-" -> "OpMinus"  [] c = "*" -> "OpMult"
      [] c = "/" -> "OpDiv"    [] c = "%" -> "OpMod"    [] c = "&" -> "OpAnd"
      [] c = "|" -> "OpOr"     [] c = "!" -> "OpNot"    [] c = ">" -> "OpGt"
      [] c = "<" -> "OpLt"     [] c = "=" -> "Assignment"
      [] c = ";" -> "SemiColon" [] c = ":" -> "Colon"   [] c = "," -> "Comma"
      [] c = "(" -> "Lparen"   [] c = ")" -> "RParen"   [] c = "{" -> "LSquirly"
      [] c = "}" -> "RSquirly" [] c = "[" -> "LBracket" [] c = "]" -> "RBracket"

\* the token the language gives a head byte followed by '='
LongTokenOf(c) ==
    CASE c = ">" -> "OpGe" [] c = "=" -> "OpEq"
      [] c = "!" -> "OpNe" [] c = "<" -> "OpLe"

\* q is an initial part of r
IsPrefix(q, r) == Len(q) <= Len(r) /\ q = SubSeq(r, 1, Len(q))

(***************************************************************************)
(* C1.  A Lexer on an input of exactly one operator or delimiter byte      *)
(* returns the matching token on the first call and None on the second.    *)
(* The code returns None on the first call for each of > = ! <, whose arm  *)
(* maps over a peek that is None at the last byte.                         *)
(***************************************************************************)
C1_SingleLexemeThenNone ==
    \A c \in SingleLexemes :
        input = << c >> =>
            /\ Calls >= 1 => results[1] = Unit(SingleTokenOf(c))
            /\ Calls >= 2 => results[2] = None

(***************************************************************************)
(* C2.  Longest match: a call that classifies one of > = ! < with '=' as   *)
(* the next byte returns the long form and consumes both bytes; the input  *)
(* >>===!=<<= yields OpGt OpGe OpEq OpNe OpLt OpLe and then None.          *)
(***************************************************************************)
LongOperatorsExpected ==
    << Unit("OpGt"), Unit("OpGe"), Unit("OpEq"), Unit("OpNe"), Unit("OpLt"),
       Unit("OpLe"), None >>

C2_LongestMatch ==
    /\ ( /\ Calls >= 1
         /\ scanStart + 1 < Len(input)
         /\ ByteAt(scanStart) \in TwoCharHeads
         /\ ByteAt(scanStart + 1) = "=" )
       => /\ Last = Unit(LongTokenOf(ByteAt(scanStart)))
          /\ position = scanStart + 2
    /\ input = LongOperatorsInput =>
          \A i \in 1..Calls :
              i <= Len(LongOperatorsExpected) =>
                  results[i] = LongOperatorsExpected[i]

C2_Witness ==
    /\ input = LongOperatorsInput
    /\ Calls = 7
    /\ results = LongOperatorsExpected

(***************************************************************************)
(* C3.  For c one of > = ! < and x another byte than '=', the input c x    *)
(* yields the short form of c and then a separate token for x.  The bytes  *)
(* x taken are those that are a lexeme of their own.  The code returns     *)
(* None for x when x is one of > ! <, the last byte of the input (C1).     *)
(***************************************************************************)
IsLexemeByte(x) ==
    \/ x \in SingleLexemes \cup { "?" }
    \/ IsIdentStart(x)
    \/ is_ascii_digit(x)

C3_ShortThenRemainder ==
    \A c \in TwoCharHeads : \A x \in SingleLexemes \cup Alphabet \cup { "5" } :
        ( input = << c, x >> /\ x # "=" /\ IsLexemeByte(x) ) =>
            /\ Calls >= 1 => results[1] = Unit(SingleTokenOf(c))
            /\ Calls >= 2 => results[2] # None

(***************************************************************************)
(* C4.  Calling next_token until the first None delivers all tokens: when  *)
(* the first None is returned, no token-producing lexeme remains after     *)
(* the cursor.  This is the statement as claimed; the code returns None    *)
(* for an unrecognised byte too, with lexemes left behind it.              *)
(***************************************************************************)
\* the tokens that further calls return, from s to the end of inp
RECURSIVE RemainingTokens(_, _)
RemainingTokens(inp, s) ==
    IF s.position >= Len(inp) THEN << >>
    ELSE LET r == next_token(inp, s)
         IN  ( IF r.tok = None THEN << >> ELSE << r.tok >> )
             \o RemainingTokens(inp, r.lex)

\* the last call returned the first None of the run
FirstNoneReturned ==
    /\ Calls >= 1
    /\ Last = None
    /\ \A i \in 1..(Calls - 1) : results[i] # None

C4_FirstNoneDeliversAll ==
    FirstNoneReturned => RemainingTokens(input, Cur) = << >>

(***************************************************************************)
(* C4, amended.  When the first None is returned, either the cursor is at  *)
(* or past the end of the input and nothing remains unscanned, or the call *)
(* classified a byte that matches no rule and advanced by that one byte,   *)
(* and only then can lexemes remain after the cursor.                      *)
(***************************************************************************)
C4_FirstNoneAtEndOrSkip ==
    FirstNoneReturned =>
        \/ /\ position >= Len(input)
           /\ RemainingTokens(input, Cur) = << >>
        \/ /\ scanStart < Len(input)
           /\ IsUnrecognized(ByteAt(scanStart))
           /\ position = scanStart + 1

C4_Witness ==
    /\ FirstNoneReturned
    /\ Calls >= 2
    /\ position < Len(input)
    /\ RemainingTokens(input, Cur) # << >>

(***************************************************************************)
(* C5.  No call panics on any input: every index of read_char and peek     *)
(* and every slice of the readers is within the buffer, and a byte that    *)
(* no rule recognises yields None.                                         *)
(***************************************************************************)
C5_NeverPanics ==
    /\ ~panicked
    /\ ch # NoChar => position < Len(input) /\ ch = ByteAt(position)
    /\ ( Calls >= 1 /\ scanStart < Len(input)
           /\ IsUnrecognized(ByteAt(scanStart)) ) => Last = None

C5_Witness ==
    /\ Calls >= 1
    /\ Last.kind \in { "Identifier", "NumLiteral", "Comment" }
    /\ position = Len(input)
    /\ scanStart + Len(Last.text) = Len(input)
    /\ ~panicked

(***************************************************************************)
(* C6.  Silent skip: a call that meets, after the whitespace, a byte at    *)
(* index i that no rule recognises returns None and leaves the cursor at   *)
(* i + 1, and the next call scans from i + 1 as a scanner of the rest of   *)
(* the input would.                                                        *)
(***************************************************************************)
\* the input from index i on
Suffix(i) == SubSeq(input, i + 1, Len(input))

C6_SilentSkip ==
    ( Calls >= 1 /\ scanStart < Len(input)
        /\ IsUnrecognized(ByteAt(scanStart)) ) =>
        /\ Last = None
        /\ position = scanStart + 1
        /\ read_position = scanStart + 2
        /\ ch = IF scanStart + 1 < Len(input)
                THEN ByteAt(scanStart + 1) ELSE NoChar
        /\ next_token(input, Cur).tok
             = next_token(Suffix(scanStart + 1),
                          new(Suffix(scanStart + 1))).tok

C6_Witness ==
    /\ Calls >= 1
    /\ scanStart > callStart
    /\ scanStart + 1 < Len(input)
    /\ IsUnrecognized(ByteAt(scanStart))
    /\ Last = None
    /\ next_token(input, Cur).tok # None

(***************************************************************************)
(* C7.  Whitespace between tokens never appears in the text of an emitted  *)
(* token, and a call that starts on whitespace never returns None when a   *)
(* recognised lexeme follows the whitespace.  The code returns None when   *)
(* that lexeme is one of > = ! < at the last byte of the input (C1).       *)
(***************************************************************************)
C7_WhitespaceTransparent ==
    /\ ( Calls >= 1 /\ Last.kind \in { "Identifier", "NumLiteral" } ) =>
           \A i \in 1..Len(Last.text) : ~is_ascii_whitespace(Last.text[i])
    /\ ( Calls >= 1 /\ Last.kind = "Comment" ) =>
           /\ Last.text[1] = "?"
           /\ \A i \in 1..Len(Last.text) : Last.text[i] # "\n"
    /\ ( Calls >= 1 /\ scanStart > callStart /\ scanStart < Len(input)
           /\ ~IsUnrecognized(ByteAt(scanStart)) ) => Last # None

(***************************************************************************)
(* C8.  A '?' starts a line comment: the call returns one Comment whose    *)
(* text runs from the '?' to just before the next newline, or to the end   *)
(* of the input, no byte of the comment yields a token of its own, and     *)
(* the tokens after the newline are the next results.                      *)
(***************************************************************************)
\* the index of the first newline at or after i, or the length of the input
NextNewline(i) ==
    IF \E j \in i..(Len(input) - 1) : ByteAt(j) = "\n"
    THEN CHOOSE j \in i..(Len(input) - 1) :
             /\ ByteAt(j) = "\n"
             /\ \A k \in i..(j - 1) : ByteAt(k) # "\n"
    ELSE Len(input)

CommentLineExpected ==
    << Tok("Comment", << "?", " ", "n", "o", "t", "e" >>),
       Tok("Identifier", << "a" >>), Unit("OpPlus"), None >>

\* the expected tokens of test_comment, and the None its helper asserts
TestCommentExpected ==
    << Unit("KwLet"), Tok("Identifier", << "a" >>), Unit("Assignment"),
       Tok("NumLiteral", << "5" >>), Unit("SemiColon"),
       Tok("Comment", << "?", " ", "F", "o", "o", "+" >>),
       Unit("KwLet"), Tok("Identifier", << "b" >>), Unit("Assignment"),
       Tok("NumLiteral", << "1", "0" >>), Unit("SemiColon"),
       Tok("Comment", << "?", " ", "B", "a", "r", "_" >>), None >>

\* the results so far are the first of those expected
Yields(expected) ==
    \A i \in 1..Calls : i <= Len(expected) => results[i] = expected[i]

C8_LineComment ==
    /\ ( Calls >= 1 /\ scanStart < Len(input) /\ ByteAt(scanStart) = "?" )
       => LET e == NextNewline(scanStart)
          IN  /\ Last = Tok("Comment", SubSeq(input, scanStart + 1, e))
              /\ position = e
              /\ ch = IF e < Len(input) THEN "\n" ELSE NoChar
    /\ input = CommentLineInput => Yields(CommentLineExpected)
    /\ input = TestCommentInput => Yields(TestCommentExpected)

C8_Witness ==
    /\ input = CommentLineInput
    /\ results = CommentLineExpected

(***************************************************************************)
(* C9.  Round trip: for an input made of recognised lexemes only, the      *)
(* texts of its tokens (comments left out), concatenated and scanned       *)
(* again, give the same tokens.  This is the statement as claimed; two     *)
(* identifiers, or two numbers, run together when concatenated.            *)
(***************************************************************************)
\* the lexeme of a token: the inverse of the match of next_token
TokenText(t) ==
    CASE t.kind \in { "Identifier", "NumLiteral", "Comment" } -> t.text
      [] t.kind = "KwLet" -> << "l", "e", "t" >>
      [] t.kind = "KwFn" -> << "f", "n" >>
      [] t.kind = "KwVoid" -> << "v", "o", "i", "d" >>
      [] t.kind = "KwTrue" -> << "t", "r", "u", "e" >>
      [] t.kind = "KwFalse" -> << "f", "a", "l", "s", "e" >>
      [] t.kind = "KwIf" -> << "i", "f" >>
      [] t.kind = "KwElse" -> << "e", "l", "s", "e" >>
      [] t.kind = "KwWhile" -> << "w", "h", "i", "l", "e" >>
      [] t.kind = "KwReturn" -> << "r", "e", "t", "u", "r", "n" >>
      [] t.kind = "KwBreak" -> << "b", "r", "e", "a", "k" >>
      [] t.kind = "OpPlus" -> << "+" >>
      [] t.kind = "OpMinus" -> << "-" >>
      [] t.kind = "OpMult" -> << "*" >>
      [] t.kind = "OpDiv" -> << "/" >>
      [] t.kind = "OpMod" -> << "%" >>
      [] t.kind = "OpAnd" -> << "&" >>
      [] t.kind = "OpOr" -> << "|" >>
      [] t.kind = "OpNot" -> << "!" >>
      [] t.kind = "OpGt" -> << ">" >>
      [] t.kind = "OpGe" -> << ">", "=" >>
      [] t.kind = "OpEq" -> << "=", "=" >>
      [] t.kind = "OpNe" -> << "!", "=" >>
      [] t.kind = "OpLt" -> << "<" >>
      [] t.kind = "OpLe" -> << "<", "=" >>
      [] t.kind = "SemiColon" -> << ";" >>
      [] t.kind = "Colon" -> << ":" >>
      [] t.kind = "Comma" -> << "," >>
      [] t.kind = "Assignment" -> << "=" >>
      [] t.kind = "Lparen" -> << "(" >>
      [] t.kind = "RParen" -> << ")" >>
      [] t.kind = "LSquirly" -> << "{" >>
      [] t.kind = "RSquirly" -> << "}" >>
      [] t.kind = "LBracket" -> << "[" >>
      [] t.kind = "RBracket" -> << "]" >>

\* a token that the round trip keeps
IsKept(t) == t # None /\ t.kind # "Comment"

\* the texts of the tokens, each followed by sep
RECURSIVE JoinTexts(_, _)
JoinTexts(toks, sep) ==
    IF toks = << >> THEN << >>
    ELSE TokenText(Head(toks)) \o sep \o JoinTexts(Tail(toks), sep)

\* the tokens kept of a whole scan of text by a new Lexer
Rescan(text) == SelectSeq(RemainingTokens(text, new(text)), IsKept)

\* no call of the scan of inp from s classifies an unrecognised byte
RECURSIVE SkipsNothing(_, _)
SkipsNothing(inp, s) ==
    IF s.position >= Len(inp) THEN TRUE
    ELSE LET s1 == skip_whitespace(inp, s)
         IN  /\ s1.ch = NoChar \/ ~IsUnrecognized(s1.ch)
             /\ SkipsNothing(inp, next_token(inp, s).lex)

ComposedOfLexemes(inp) == SkipsNothing(inp, new(inp))

\* the tokens kept of the calls made so far
Scanned == SelectSeq(results, IsKept)

\* the input is scanned to its end
ScanComplete == position >= Len(input)

C9_RoundTripConcatenated ==
    ( ScanComplete /\ ComposedOfLexemes(input) ) =>
        Rescan(JoinTexts(Scanned, << >>)) = Scanned

(***************************************************************************)
(* C9, amended.  For an input made of recognised lexemes only, the texts   *)
(* of its tokens (comments left out), each followed by one space,          *)
(* concatenated and scanned again, give the same tokens.                   *)
(***************************************************************************)
C9_RoundTripSeparated ==
    ( ScanComplete /\ ComposedOfLexemes(input) ) =>
        Rescan(JoinTexts(Scanned, << " " >>)) = Scanned

C9_Witness ==
    /\ ScanComplete
    /\ ComposedOfLexemes(input)
    /\ Len(Scanned) >= 2
    /\ \E i \in 1..Len(Scanned) : Scanned[i].kind = "Identifier"
    /\ \E i \in 1..Len(Scanned) : Scanned[i].kind = "NumLiteral"
    /\ Rescan(JoinTexts(Scanned, << " " >>)) = Scanned

(***************************************************************************)
(* C10.  Each of the ten keywords, scanned alone, yields its keyword       *)
(* token, not an Identifier, and then None.                                *)
(***************************************************************************)
KeywordTokens ==
    { << << "l", "e", "t" >>, "KwLet" >>,
      << << "f", "n" >>, "KwFn" >>,
      << << "v", "o", "i", "d" >>, "KwVoid" >>,
      << << "t", "r", "u", "e" >>, "KwTrue" >>,
      << << "f", "a", "l", "s", "e" >>, "KwFalse" >>,
      << << "i", "f" >>, "KwIf" >>,
      << << "e", "l", "s", "e" >>, "KwElse" >>,
      << << "w", "h", "i", "l", "e" >>, "KwWhile" >>,
      << << "r", "e", "t", "u", "r", "n" >>, "KwReturn" >>,
      << << "b", "r", "e", "a", "k" >>, "KwBreak" >> }

C10_KeywordAlone ==
    \A kt \in KeywordTokens :
        input = kt[1] =>
            /\ Calls >= 1 => results[1] = Unit(kt[2])
            /\ Calls >= 2 => results[2] = None

C10_Witness ==
    /\ input = << "b", "r", "e", "a", "k" >>
    /\ results = << Unit("KwBreak"), None >>

(***************************************************************************)
(* C11.  A maximal run of ASCII letters and underscores that is not a      *)
(* keyword yields one Identifier carrying the whole run; the run stops at  *)
(* the first byte that is neither, a digit included; a run that contains   *)
(* or extends a keyword is an Identifier.                                  *)
(***************************************************************************)
\* a byte of an identifier
IsIdentByte(c) == is_ascii_alphabetic(c) \/ c = "_"

\* the index after the run of identifier bytes that starts at i
IdentRunEnd(i) ==
    CHOOSE e \in i..Len(input) :
        /\ \A k \in i..(e - 1) : IsIdentByte(ByteAt(k))
        /\ e = Len(input) \/ ~IsIdentByte(ByteAt(e))

C11_IdentifierMaximalRun ==
    ( Calls >= 1 /\ scanStart < Len(input)
        /\ IsIdentByte(ByteAt(scanStart)) ) =>
        LET e   == IdentRunEnd(scanStart)
            run == SubSeq(input, scanStart + 1, e)
        IN  /\ position = e
            /\ run \notin Keywords => Last = Tok("Identifier", run)
            /\ run \in Keywords => Last.kind \notin { "Identifier", "None" }

C11_Witness ==
    /\ input = << "l", "e", "t", "_" >>
    /\ results = << Tok("Identifier", << "l", "e", "t", "_" >>) >>
    /\ position = 4

(***************************************************************************)
(* C12.  A maximal digit run with no decimal point yields one NumLiteral   *)
(* whose text is the run; a digit run, a '.' and a digit run yield one     *)
(* NumLiteral whose text spans both runs and the '.'.                      *)
(***************************************************************************)
\* the index after the run of digits that starts at i
DigitRunEnd(i) ==
    CHOOSE e \in i..Len(input) :
        /\ \A k \in i..(e - 1) : is_ascii_digit(ByteAt(k))
        /\ e = Len(input) \/ ~is_ascii_digit(ByteAt(e))

\* the byte at index i is c
HasByte(i, c) == i < Len(input) /\ ByteAt(i) = c

\* the byte at index i is a digit
HasDigit(i) == i < Len(input) /\ is_ascii_digit(ByteAt(i))

\* the last call classified a digit
ScannedNumeral == Calls >= 1 /\ HasDigit(scanStart)

C12_NumLiteralRuns ==
    ScannedNumeral =>
        LET d1 == DigitRunEnd(scanStart)
            d2 == DigitRunEnd(d1 + 1)
        IN  /\ ~HasByte(d1, ".") =>
                  /\ Last = Tok("NumLiteral", SubSeq(input, scanStart + 1, d1))
                  /\ position = d1
            /\ ( HasByte(d1, ".") /\ HasDigit(d1 + 1) ) =>
                  /\ Last = Tok("NumLiteral", SubSeq(input, scanStart + 1, d2))
                  /\ position = d2

C12_Witness ==
    /\ input = << "1", "0", ".", "0" >>
    /\ results = << Tok("NumLiteral", << "1", "0", ".", "0" >>) >>
    /\ position = 4

(***************************************************************************)
(* C16.  A digit run followed by a '.' that no digit follows is one        *)
(* NumLiteral whose text ends with the '.', and the next call starts       *)
(* after the '.'; no NumLiteral text holds more than one '.', so a '.'     *)
(* after the fraction digits is left to the next call.                     *)
(***************************************************************************)
\* the number of '.' in a text
Dots(text) == Cardinality({ i \in 1..Len(text) : text[i] = "." })

C16_TrailingDot ==
    /\ ( Calls >= 1 /\ Last.kind = "NumLiteral" ) => Dots(Last.text) <= 1
    /\ ScannedNumeral =>
          LET d1 == DigitRunEnd(scanStart)
              d2 == DigitRunEnd(d1 + 1)
          IN  /\ ( HasByte(d1, ".") /\ ~HasDigit(d1 + 1) ) =>
                    /\ Last = Tok("NumLiteral",
                                   SubSeq(input, scanStart + 1, d1 + 1))
                    /\ position = d1 + 1
                    /\ ch = IF d1 + 1 < Len(input)
                            THEN ByteAt(d1 + 1) ELSE NoChar
              /\ ( HasByte(d1, ".") /\ HasDigit(d1 + 1) /\ HasByte(d2, ".") )
                    => position = d2 /\ ch = "."

C16_Witness ==
    /\ input = << "1", "2", ".", ";" >>
    /\ results = << Tok("NumLiteral", << "1", "2", "." >>), Unit("SemiColon") >>

(***************************************************************************)
(* C13.  On the input of test_complete_lexer, next_token returns the 24    *)
(* tokens the test lists, in order, and the call after the RSquirly that   *)
(* closes the body of add returns None, as the helper of the tests         *)
(* asserts.  The code returns KwIf there: the input goes on after the      *)
(* function, and the list of the test stops at its end.  The runs of the   *)
(* tests are those of SpecTests.                                           *)
(***************************************************************************)
\* the expected tokens of test_complete_lexer
TestCompleteTokens ==
    << Unit("KwLet"), Tok("Identifier", << "f", "i", "v", "e" >>),
       Unit("Assignment"), Tok("NumLiteral", << "5" >>), Unit("SemiColon"),
       Unit("KwLet"), Tok("Identifier", << "t", "e", "n" >>),
       Unit("Assignment"), Tok("NumLiteral", << "1", "0", ".", "0" >>),
       Unit("SemiColon"),
       Unit("KwFn"), Tok("Identifier", << "a", "d", "d" >>), Unit("Lparen"),
       Tok("Identifier", << "x" >>), Unit("Comma"),
       Tok("Identifier", << "y" >>), Unit("RParen"), Unit("LSquirly"),
       Unit("KwReturn"), Tok("Identifier", << "x" >>), Unit("OpPlus"),
       Tok("Identifier", << "y" >>), Unit("SemiColon"), Unit("RSquirly") >>

\* those tokens and the None that test asserts after them
TestCompleteExpected == Append(TestCompleteTokens, None)

C13_CompleteLexerThenNone ==
    input = TestCompleteInput => Yields(TestCompleteExpected)

\* the part of C13 that holds: the 24 tokens, in order
C13_CompleteLexerTokens ==
    input = TestCompleteInput => Yields(TestCompleteTokens)

(***************************************************************************)
(* C14.  In every state after Lexer::new and any number of next_token      *)
(* calls, read_position = position + 1, ch is None exactly when position   *)
(* is at or past the end of the input and is input[position] otherwise,    *)
(* and the input buffer is never modified.                                 *)
(***************************************************************************)
C14_CursorInvariant ==
    /\ read_position = position + 1
    /\ ch = NoChar <=> position >= Len(input)
    /\ position < Len(input) => ch = ByteAt(position)

C14_ScannerStateInvariant ==
    /\ []C14_CursorInvariant
    /\ [][input' = input]_vars

C14_Witness ==
    /\ Calls >= 2
    /\ position > Len(input)
    /\ ch = NoChar
    /\ RemainingTokens(input, new(input)) # << >>

(***************************************************************************)
(* C15.  A call that returns a token leaves the cursor right after the     *)
(* last byte of the token's lexeme, leading whitespace skipped; the        *)
(* payload of an Identifier, a NumLiteral or a Comment is the input from   *)
(* the first byte that is not whitespace at or after the cursor of entry   *)
(* up to position - 1; every call advances the cursor by at least one.     *)
(***************************************************************************)
\* the first index at or after i whose byte is not whitespace
FirstNonWhitespace(i) ==
    IF i >= Len(input) THEN i
    ELSE CHOOSE e \in i..Len(input) :
             /\ \A k \in i..(e - 1) : is_ascii_whitespace(ByteAt(k))
             /\ e = Len(input) \/ ~is_ascii_whitespace(ByteAt(e))

C15_CursorAfterLexeme ==
    Calls >= 1 =>
        /\ position >= callStart + 1
        /\ scanStart = FirstNonWhitespace(callStart)
        /\ Last # None =>
              /\ position = scanStart + Len(TokenText(Last))
              /\ position <= Len(input)
              /\ SubSeq(input, scanStart + 1, position) = TokenText(Last)

C15_Witness ==
    /\ Calls >= 2
    /\ scanStart > callStart
    /\ Last.kind \in { "Identifier", "NumLiteral", "Comment" }
    /\ Len(Last.text) >= 2
    /\ position = scanStart + Len(Last.text)

(***************************************************************************)
(* C17.  next_token returns None exactly when, the whitespace skipped,     *)
(* the cursor is at or past the end of the input, or the current byte      *)
(* belongs to no lexeme class, or the current byte is one of > = ! < and   *)
(* is the last byte of the input; otherwise it returns a token.            *)
(***************************************************************************)
C17_NoneExactly ==
    Calls >= 1 =>
        ( Last = None <=>
            \/ scanStart >= Len(input)
            \/ IsUnrecognized(ByteAt(scanStart))
            \/ /\ ByteAt(scanStart) \in TwoCharHeads
               /\ scanStart = Len(input) - 1 )

C17_Witness ==
    /\ Calls >= 2
    /\ Last = None
    /\ scanStart > callStart
    /\ scanStart = Len(input) - 1
    /\ ByteAt(scanStart) \in TwoCharHeads

(***************************************************************************)
(* C18.  Termination and sticky end: on an input of n bytes one of the     *)
(* first n + 1 calls returns None, so the loop of main ends on every       *)
(* input; a call entered with the cursor at or past the end returns None,  *)
(* keeps ch = None and only adds one to position and read_position.        *)
(* Termination is stated by its bound: as long as no call has returned     *)
(* None, at most n calls were made and the cursor is not past the end.     *)
(***************************************************************************)
\* some call has returned None: the loop of main has ended
NoneReturned == \E i \in 1..Calls : results[i] = None

C18_TerminationAndStickyEnd ==
    /\ ~NoneReturned =>
          /\ Calls <= Len(input)
          /\ ~panicked
          /\ position <= Len(input)
    /\ Calls >= Len(input) + 1 =>
          \E i \in 1..(Len(input) + 1) : results[i] = None
    /\ ( Calls >= 1 /\ callStart >= Len(input) ) =>
          /\ Last = None
          /\ ch = NoChar
          /\ position = callStart + 1
          /\ read_position = callStart + 2

C18_Witness ==
    /\ Len(input) >= 2
    /\ Calls = Len(input) + 2
    /\ callStart > Len(input)
    /\ results[Len(input) + 1] = None
    /\ \A i \in 1..Len(input) : results[i] # None
    /\ Last = None

(***************************************************************************)
(* C19.  Suffix equivalence: a Lexer with its cursor at index p of the     *)
(* input and a new Lexer on the input from p on return the same result on  *)
(* every further call, and their cursors stay p apart; no result depends   *)
(* on the bytes before the cursor or on earlier results.                   *)
(***************************************************************************)
\* the calls on inp from s and on suf from t agree, the cursors p apart
RECURSIVE AgreeFrom(_, _, _, _, _)
AgreeFrom(inp, s, suf, t, p) ==
    IF s.position >= Len(inp) + MaxPast THEN TRUE
    ELSE LET a == next_token(inp, s)
             b == next_token(suf, t)
         IN  /\ a.tok = b.tok
             /\ a.lex.position = p + b.lex.position
             /\ a.lex.read_position = p + b.lex.read_position
             /\ a.lex.ch = b.lex.ch
             /\ a.lex.panic = b.lex.panic
             /\ AgreeFrom(inp, a.lex, suf, b.lex, p)

C19_SuffixEquivalence ==
    position <= Len(input) =>
        AgreeFrom(input, Cur, Suffix(position), new(Suffix(position)),
                  position)

C19_Witness ==
    /\ Calls >= 1
    /\ Last # None
    /\ position < Len(input)
    /\ Len(RemainingTokens(input, Cur)) >= 2
    /\ AgreeFrom(input, Cur, Suffix(position), new(Suffix(position)),
                 position)

====
